---- MODULE Spec2Model ----
(***************************************************************************)
(* The 1brc programs of this repository as state machines.                 *)
(*                                                                         *)
(*   Spec       Calculate of part_003: ReadPages, the page channel, the    *)
(*              workers' HandlePages, MergeParts and WriteResults.         *)
(*   SpecSplit  the same pipeline fed by a source that delivers its bytes  *)
(*              in two sequential reads.                                   *)
(*   SpecMerge  MergeParts / MergeStores and the writers, started from     *)
(*              per-worker stores drawn from bounded sets.                 *)
(*   SpecSolve  Solve of part_002: the errgroup of workers and the reader. *)
(*   SpecSolveIO  Solve of part_002 on a file whose reads can fail.        *)
(*   FairCancel Solve of part_002 on files with a bad record, under the    *)
(*              fairness of the Go scheduler.                              *)
(*   SpecLong   Calculate on a file of more Pages than the channel holds.  *)
(*   SpecStore  InfoStore.Update and InfoStore.Merge on one store.         *)
(*   SpecKeys   Calculate and Solve on files that make Pages be reused.    *)
(*   SpecFloat  Calculate on one record with any literal of the shape.     *)
(*   SpecEmpty  Calculate and Solve on files with empty lines.             *)
(*   SpecMain   Solve of main.go: lines sent one by one to the workers.    *)
(*                                                                         *)
(* A byte is its code 0..255; a value is kept in tenths (1.2 is 12), so    *)
(* the rounding of float64 sums is outside the model.                      *)
(***************************************************************************)
EXTENDS Integers, Sequences, FiniteSets, TLC

\* ------------------------------------------------------------------ bounds

\* Longest input, in records.
MaxRecs == 2
\* Largest number of worker goroutines (runtime.GOMAXPROCS(-1) in the code).
MaxWorkers == 2
\* Page sizes tried (os.Getpagesize() in the code).
PageSizes == {6, 8, 10}

\* ------------------------------------------------------------------ bytes

\* '\n'
endLine == 10
\* ';'
valueSep == 59

\* The records an input is made of: the bytes of the line without its
\* terminator, and the key and the value (in tenths) it denotes.
\*   "A;1.0"  "B;2.0"  "A;-3.5"
RecordSet ==
  { [bytes |-> <<65, 59, 49, 46, 48>>,         key |-> <<65>>,     val |-> 10],
    [bytes |-> <<66, 59, 50, 46, 48>>,         key |-> <<66>>,     val |-> 20],
    [bytes |-> <<65, 59, 45, 51, 46, 53>>,     key |-> <<65>>,     val |-> -35] }

Min2(a, b) == IF a < b THEN a ELSE b
Max2(a, b) == IF a > b THEN a ELSE b

\* Go's s[a:b] on a 0-based slice.
Slice(s, a, b) == SubSeq(s, a + 1, b)
\* Go's s[a:].
SliceFrom(s, a) == SubSeq(s, a + 1, Len(s))

\* bytes.IndexByte: the first 0-based index of c in s, or -1.
IndexByte(s, c) ==
  IF \E i \in 1..Len(s) : s[i] = c
  THEN (CHOOSE i \in 1..Len(s) : s[i] = c /\ \A j \in 1..(i - 1) : s[j] # c) - 1
  ELSE -1

\* bytes.LastIndexByte: the last 0-based index of c in s, or -1.
LastIndexByte(s, c) ==
  IF \E i \in 1..Len(s) : s[i] = c
  THEN (CHOOSE i \in 1..Len(s) : s[i] = c /\ \A j \in (i + 1)..Len(s) : s[j] # c) - 1
  ELSE -1

\* Go's string comparison a < b: byte-wise lexicographic.
StrLess(a, b) ==
  \E i \in 1..(Min2(Len(a), Len(b)) + 1) :
    /\ \A j \in 1..(i - 1) : a[j] = b[j]
    /\ \/ (i = Len(a) + 1 /\ i <= Len(b))
       \/ (i <= Len(a) /\ i <= Len(b) /\ a[i] < b[i])

\* The bytes of the file: every record followed by its terminator, the last
\* one only when tm.
FileBytes(rs, tm) ==
  LET RECURSIVE cat(_, _)
      cat(i, j) == IF i > j THEN <<>>
                   ELSE IF i = j
                        THEN rs[i].bytes
                             \o (IF i < Len(rs) \/ tm THEN <<endLine>> ELSE <<>>)
                   ELSE cat(i, (i + j) \div 2) \o cat(((i + j) \div 2) + 1, j)
  IN cat(1, Len(rs))

\* ------------------------------------------------------------ part_003

\* A ParseFloat that applies the sign to the integer part alone.
ParseFloat_SignFirst(value) ==
  LET neg == value[1] = 45
      n == Len(value)
      RECURSIVE acc(_, _)
      acc(i, f) == IF i < n - 2
                   THEN acc(i + 1, (f * 10) + ((value[i + 1] - 48) % 256))
                   ELSE f
      f == acc(IF neg THEN 1 ELSE 0, 0)
  IN (10 * (IF neg THEN -f ELSE f)) + ((value[n] - 48) % 256)

\* ParseFloat of a non-empty literal, in tenths.  value[i]-'0' is a byte
\* subtraction (it wraps modulo 256); the byte before the last one (the '.')
\* is skipped; the sign is applied last.
ParseFloat(value) ==
  LET neg == value[1] = 45
      n == Len(value)
      RECURSIVE acc(_, _)
      acc(i, f) == IF i < n - 2
                   THEN acc(i + 1, (f * 10) + ((value[i + 1] - 48) % 256))
                   ELSE f
      f == acc(IF neg THEN 1 ELSE 0, 0)
      t == (10 * f) + ((value[n] - 48) % 256)
  IN IF neg THEN -t ELSE t

\* lineEndIndex: the first index >= 5 of a line terminator, or -1.
lineEndIndex(b) ==
  IF \E i \in 6..Len(b) : b[i] = endLine
  THEN (CHOOSE i \in 6..Len(b) : b[i] = endLine /\ \A j \in 6..(i - 1) : b[j] # endLine) - 1
  ELSE -1

\* ParseLine of part_003: the separator is searched from the end.  panic is
\* TRUE when the separator is missing (the explicit panic) or the literal is
\* empty (value[0] is out of range in ParseFloat).
ParseLine(line) ==
  LET sep == LastIndexByte(line, valueSep)
  IN IF sep = -1 \/ sep + 1 = Len(line)
     THEN [panic |-> TRUE, name |-> <<>>, value |-> 0]
     ELSE [panic |-> FALSE, name |-> Slice(line, 0, sep),
           value |-> ParseFloat(SliceFrom(line, sep + 1))]

NewStats(value) == [Min |-> value, Max |-> value, Sum |-> value, Count |-> 1]

\* A Stats.Update that forgets to count the value.
Stats_Update_NoCount(st, value) ==
  [Min |-> IF st.Min > value THEN value ELSE st.Min,
   Max |-> IF st.Max < value THEN value ELSE st.Max,
   Sum |-> st.Sum + value,
   Count |-> st.Count]

Stats_Update(st, value) ==
  [Min |-> IF st.Min > value THEN value ELSE st.Min,
   Max |-> IF st.Max < value THEN value ELSE st.Max,
   Sum |-> st.Sum + value,
   Count |-> st.Count + 1]

\* A Stats.Merge that keeps the receiver's minimum.
Stats_Merge_KeepMin(st, other) ==
  [Min |-> st.Min,
   Max |-> IF st.Max < other.Max THEN other.Max ELSE st.Max,
   Sum |-> st.Sum + other.Sum,
   Count |-> st.Count + other.Count]

Stats_Merge(st, other) ==
  [Min |-> IF st.Min > other.Min THEN other.Min ELSE st.Min,
   Max |-> IF st.Max < other.Max THEN other.Max ELSE st.Max,
   Sum |-> st.Sum + other.Sum,
   Count |-> st.Count + other.Count]

\* NewCalc: the empty cities map.  A Calc owned by a worker is a function
\* from its keys to the Stats objects the worker allocated.
NewCalc == [n \in {} |-> NewStats(0)]

\* Calc.Update: fold into the entry of the key, or insert a fresh one under a
\* copy of the key.
Calc_Update(c, name, value) ==
  IF name \in DOMAIN c
  THEN [c EXCEPT ![name] = Stats_Update(@, value)]
  ELSE [n \in DOMAIN c \cup {name} |-> IF n = name THEN NewStats(value) ELSE c[n]]

\* A Calc.Merge that stores the pointer `other` whether or not the key exists.
Calc_Merge_Overwrite(m, name, i) ==
  [m EXCEPT !.c = [n \in DOMAIN m.c \cup {name} |->
                     IF n = name THEN i ELSE m.c[n]]]

\* Calc.Merge on the merged Calc.  The merged map holds pointers: m.c[name]
\* is the index of the part whose Stats object the entry is, m.l the parts
\* themselves.  An entry that exists is merged in place (which writes to the
\* part that owns the object); a new entry stores the pointer `other`.
Calc_Merge(m, name, i) ==
  IF name \in DOMAIN m.c
  THEN [m EXCEPT !.l[m.c[name]][name] = Stats_Merge(@, m.l[i][name])]
  ELSE [m EXCEPT !.c = [n \in DOMAIN m.c \cup {name} |->
                          IF n = name THEN i ELSE m.c[n]]]

\* MergeParts: parts in index order, each part's map in some iteration order
\* (the keys of one part are distinct, so that order cannot matter and CHOOSE
\* picks one).
MergeParts(l) ==
  LET RECURSIVE names(_, _, _)
      names(m, i, todo) ==
        IF todo = {} THEN m
        ELSE LET name == CHOOSE x \in todo : TRUE
             IN names(Calc_Merge(m, name, i), i, todo \ {name})
      RECURSIVE part(_, _)
      part(m, i) == IF i > Len(l) THEN m
                    ELSE part(names(m, i, DOMAIN l[i]), i + 1)
  IN part([c |-> [n \in {} |-> 0], l |-> l], 1)

\* The key -> Stats mapping a merged Calc denotes.
CalcView(m) == [n \in DOMAIN m.c |-> m.l[m.c[n]][n]]

\* A WriteResults that leaves the names in map iteration order.
SortByName_Unsorted(l) == l

\* sort.Slice(l, l[i].Name < l[j].Name) on a list of distinct names.
SortByName(l) ==
  LET RECURSIVE ins(_, _)
      ins(sorted, x) ==
        IF sorted = <<>> THEN <<x>>
        ELSE IF StrLess(x, Head(sorted)) THEN <<x>> \o sorted
        ELSE <<Head(sorted)>> \o ins(Tail(sorted), x)
      RECURSIVE go(_, _)
      go(i, sorted) == IF i > Len(l) THEN sorted ELSE go(i + 1, ins(sorted, l[i]))
  IN go(1, <<>>)

\* The decimal digits of a natural number.
Digits(k) ==
  LET RECURSIVE d(_)
      d(x) == IF x < 10 THEN <<48 + x>> ELSE d(x \div 10) \o <<48 + (x % 10)>>
  IN d(k)

\* %.1f of a magnitude in tenths with its sign.
Fmt1(neg, mag) ==
  (IF neg THEN <<45>> ELSE <<>>) \o Digits(mag \div 10) \o <<46, 48 + (mag % 10)>>

\* %.1f of a value held in tenths.
FmtValue(v) == Fmt1(v < 0, IF v < 0 THEN -v ELSE v)

\* %.1f of Sum/Count: the quotient rounded to the nearest tenth, a tie to
\* the even digit; the sign of the quotient is kept when it rounds to zero.
FmtMean(sum, count) ==
  LET a == IF sum < 0 THEN -sum ELSE sum
      q == a \div count
      r == a % count
      up == (2 * r > count) \/ (2 * r = count /\ q % 2 = 1)
  IN Fmt1(sum < 0, IF up THEN q + 1 ELSE q)

\* Calc.WriteResults: the entries are collected in the map's iteration order
\* `order`, sorted by name and written.
Calc_WriteResults(view, order) ==
  LET l == SortByName(order)
      RECURSIVE entries(_)
      entries(i) ==
        IF i > Len(l) THEN <<>>
        ELSE (IF i # 1 THEN <<44>> ELSE <<>>)
             \o l[i] \o <<61>> \o FmtValue(view[l[i]].Min)
             \o <<47>> \o FmtMean(view[l[i]].Sum, view[l[i]].Count)
             \o <<47>> \o FmtValue(view[l[i]].Max)
             \o entries(i + 1)
  IN <<123>> \o entries(1) \o <<125, 10>>

\* The orders in which a map with key set S can be iterated.
Orders(S) ==
  { o \in [1..Cardinality(S) -> S] : \A i, j \in DOMAIN o : i # j => o[i] # o[j] }

\* ------------------------------------------------------------ part_002

\* ValueToFloat: strconv.ParseFloat on the bytes the model's files are made
\* of: an optional sign, digits with at most one '.', at least one digit.
\* Any other byte, a second '.', a sign elsewhere or no digit is a syntax
\* error.  The value is kept in tenths: fraction digits after the first
\* are dropped (the records of the model's files have one).
ValueToFloat(value) ==
  LET signed == Len(value) > 0 /\ value[1] \in {43, 45}
      body == IF signed THEN Tail(value) ELSE value
      dot == IndexByte(body, 46)
      int == IF dot = -1 THEN body ELSE Slice(body, 0, dot)
      frac == IF dot = -1 THEN <<>> ELSE SliceFrom(body, dot + 1)
      isDigits(x) == \A i \in 1..Len(x) : x[i] \in 48..57
      RECURSIVE num(_, _)
      num(x, a) == IF x = <<>> THEN a ELSE num(Tail(x), (a * 10) + (Head(x) - 48))
      t == (10 * num(int, 0)) + (IF frac = <<>> THEN 0 ELSE frac[1] - 48)
  IN IF isDigits(int) /\ isDigits(frac) /\ Len(int) + Len(frac) > 0
     THEN [err |-> "nil", value |-> IF signed /\ value[1] = 45 THEN -t ELSE t]
     ELSE [err |-> "syntax", value |-> 0]

\* ParseLine of part_002: the first separator splits the line; without one
\* the error is ErrSeparatorNotFound, otherwise the error of ValueToFloat.
ParseLineItem(line) ==
  LET sep == IndexByte(line, valueSep)
      v == ValueToFloat(SliceFrom(line, sep + 1))
  IN IF sep = -1
     THEN [err |-> "separator not found", name |-> <<>>, value |-> 0]
     ELSE [err |-> v.err, name |-> Slice(line, 0, sep), value |-> v.value]

\* InfoFromItem: the name is copied.
InfoFromItem(item) ==
  [Name |-> item.name, Min |-> item.value, Max |-> item.value,
   Sum |-> item.value, Count |-> 1]

Info_Update(info, item) ==
  [Name |-> info.Name,
   Min |-> IF info.Min > item.value THEN item.value ELSE info.Min,
   Max |-> IF info.Max < item.value THEN item.value ELSE info.Max,
   Sum |-> info.Sum + item.value,
   Count |-> info.Count + 1]

Info_Merge(info, other) ==
  [Name |-> info.Name,
   Min |-> IF info.Min > other.Min THEN other.Min ELSE info.Min,
   Max |-> IF info.Max < other.Max THEN other.Max ELSE info.Max,
   Sum |-> info.Sum + other.Sum,
   Count |-> info.Count + other.Count]

\* NewInfoStore: no infos.
NewInfoStore == <<>>

\* sort.Search(n, func(i) strings.Compare(infos[i].Name, name) >= 0): the
\* binary search, as a 0-based index.
SearchName(infos, name) ==
  LET RECURSIVE bs(_, _)
      bs(i, j) == IF i < j
                  THEN LET h == (i + j) \div 2
                       IN IF StrLess(infos[h + 1].Name, name) THEN bs(h + 1, j) ELSE bs(i, h)
                  ELSE i
  IN bs(0, Len(infos))

\* An insertion that forgets the position and appends.
InsertAt_End(infos, i, x) == Append(infos, x)

\* The infos with x inserted at the 0-based index i.
InsertAt(infos, i, x) == Slice(infos, 0, i) \o <<x>> \o SliceFrom(infos, i)

\* InfoStore.Update
InfoStore_Update(infos, item) ==
  LET i == SearchName(infos, item.name)
  IN IF i = Len(infos) THEN Append(infos, InfoFromItem(item))
     ELSE IF infos[i + 1].Name = item.name
          THEN [infos EXCEPT ![i + 1] = Info_Update(@, item)]
     ELSE InsertAt(infos, i, InfoFromItem(item))

\* InfoStore.Merge
InfoStore_Merge(infos, info) ==
  LET i == SearchName(infos, info.Name)
  IN IF i = Len(infos) THEN Append(infos, info)
     ELSE IF infos[i + 1].Name = info.Name
          THEN [infos EXCEPT ![i + 1] = Info_Merge(@, info)]
     ELSE InsertAt(infos, i, info)

\* MergeStores: every info of every store, in order, merged into a new store.
MergeStores(l) ==
  LET RECURSIVE info(_, _, _)
      info(st, i, k) == IF k > Len(l[i]) THEN st
                        ELSE info(InfoStore_Merge(st, l[i][k]), i, k + 1)
      RECURSIVE part(_, _)
      part(st, i) == IF i > Len(l) THEN st ELSE part(info(st, i, 1), i + 1)
  IN part(NewInfoStore, 1)

\* InfoStore.Print: the infos in the order of the slice, ", " between them.
InfoStore_Print(infos) ==
  LET RECURSIVE entries(_)
      entries(i) ==
        IF i > Len(infos) THEN <<>>
        ELSE (IF i # 1 THEN <<44, 32>> ELSE <<>>)
             \o infos[i].Name \o <<61>> \o FmtValue(infos[i].Min)
             \o <<47>> \o FmtMean(infos[i].Sum, infos[i].Count)
             \o <<47>> \o FmtValue(infos[i].Max)
             \o entries(i + 1)
  IN <<123>> \o entries(1) \o <<125, 10>>


\* ------------------------------------------------------------------ state

VARIABLES
  prog,       \* the program that runs: "part_003" (Calculate) or "part_002" (Solve)
  recs,       \* the records of the input file, in order
  term,       \* TRUE when the last record has its line terminator
  split,      \* the source ends its first read at this offset (0: it never reads short)
  pageSize,   \* pageSize
  workers,    \* the number of worker goroutines
  off,        \* the offset of the file: the bytes read so far
  rpc,        \* the reader goroutine: "fill", "send", "done"
  rpage,      \* the Page p the reader holds (0: none yet)
  prefix,     \* prefix, the carry
  pages,      \* the channel: the queued Pages, oldest first
  closed,     \* TRUE once the channel is closed
  buf,        \* buf[p]: the buffer of Page p
  pn,         \* pn[p]: the field n of Page p
  pool,       \* pagePool: the Pages put back and not taken again
  wpc,        \* wpc[w]: worker w is at "recv", "handle", "put", "done", "failed"
  wpage,      \* wpage[w]: the Page worker w parses (0: none)
  consumed,   \* consumed[w] in HandlePage
  parts,      \* parts[w]: the cities of the Calc of worker w (part_003)
  merged,     \* the cities of the merged Calc: key -> owning part (part_003)
  mpc,        \* the main goroutine: "wait", "write", "done"
  ret,        \* what Calculate / Solve returned: "none" yet, "nil", "error"
  output,     \* the bytes written to the primary output
  panicked,   \* TRUE once a goroutine has panicked: the process is gone
  sent,       \* history: the Bytes() of every Page enqueued, in order
  folded,     \* history: folded[w][key], the bag of values folded into the entry
  stores,     \* stores[w]: the infos of the InfoStore of worker w (part_002)
  store,      \* the infos of the merged InfoStore (part_002)
  egErr,      \* the errgroup's err: "nil" or the first error a task returned
  ctxDone,    \* TRUE once ectx is cancelled
  fails,      \* how many more reads of the file fail with an error other than io.EOF
  rfailed,    \* history: the Page the reader holds was built after a failed read
  readFailed, \* history: a read has failed
  failedSent, \* history: a Page built after a failed read was enqueued
  lines,      \* the channel lines of main.go: the queued lines, oldest first
  wline,      \* wline[w]: the line worker w of main.go handles
  keyAt       \* keyAt[w][key]: the memory that holds the bytes of the stored key

cfgVars == <<prog, recs, term, split, pageSize, workers>>
readerVars == <<off, rpc, rpage, prefix>>
pageVars == <<buf, pn, pool>>
chanVars == <<pages, closed>>
workerVars == <<wpc, wpage, consumed>>
calcVars == <<parts, merged, folded, keyAt>>
mainVars == <<mpc, ret, output>>
storeVars == <<stores, store>>
egVars == <<egErr, ctxDone>>
failVars == <<fails, rfailed, readFailed, failedSent>>
solveVars == <<storeVars, egVars, failVars>>
lineVars == <<lines, wline>>
vars == <<cfgVars, readerVars, pageVars, chanVars, workerVars, calcVars,
          mainVars, panicked, sent, solveVars, lineVars>>

\* The bytes of the input file.
File == FileBytes(recs, term)

\* Sequences of at most n elements of S.
SeqUpTo(S, n) == UNION { [1..k -> S] : k \in 0..n }

\* A bag of values: value -> how many times.
EmptyBag == [v \in {} |-> 0]
BagAdd(b, v) ==
  [x \in DOMAIN b \cup {v} |-> (IF x \in DOMAIN b THEN b[x] ELSE 0) + (IF x = v THEN 1 ELSE 0)]
BagUnion(a, b) ==
  [x \in DOMAIN a \cup DOMAIN b |->
     (IF x \in DOMAIN a THEN a[x] ELSE 0) + (IF x \in DOMAIN b THEN b[x] ELSE 0)]

\* A key kept as it was parsed: a view of the bytes from..to of Page p.
ViewString(p, from, to) == [own |-> FALSE, page |-> p, from |-> from, to |-> to]

\* string(name) of a name that is the bytes from..to of Page p: a string in
\* memory of its own, whatever becomes of the Page.
OwnedString(p, from, to) == [own |-> TRUE, page |-> p, from |-> from, to |-> to]

\* The memory of the keys of one store after a call for name, parsed at
\* offset from of Page p: a key the store holds stays where it is, a new one
\* is retained through string(name).
KeyAdd(f, name, p, from) ==
  [n \in DOMAIN f \cup {name} |->
     IF n \in DOMAIN f THEN f[n] ELSE OwnedString(p, from, from + Len(name))]

\* The history of one store with value v folded into the entry of name.
FoldedAdd(f, name, v) ==
  [n \in DOMAIN f \cup {name} |->
     IF n = name THEN BagAdd(IF n \in DOMAIN f THEN f[n] ELSE EmptyBag, v) ELSE f[n]]

\* The state every pipeline starts in, for a given configuration.
Start ==
  /\ off = 0 /\ rpc = "fill" /\ rpage = 0 /\ prefix = <<>>
  /\ pages = <<>> /\ closed = FALSE
  /\ buf = <<>> /\ pn = <<>> /\ pool = {}
  /\ wpc = [w \in 1..workers |-> "recv"]
  /\ wpage = [w \in 1..workers |-> 0]
  /\ consumed = [w \in 1..workers |-> 0]
  /\ parts = [w \in 1..workers |-> NewCalc]
  /\ folded = [w \in 1..workers |-> NewCalc]
  /\ merged = NewCalc
  /\ mpc = "wait" /\ ret = "none" /\ output = <<>>
  /\ panicked = FALSE /\ sent = <<>>
  /\ stores = [w \in 1..workers |-> NewInfoStore]
  /\ store = NewInfoStore
  /\ egErr = "nil" /\ ctxDone = FALSE
  /\ rfailed = FALSE /\ readFailed = FALSE /\ failedSent = FALSE
  /\ lines = <<>>
  /\ wline = [w \in 1..workers |-> <<>>]
  /\ keyAt = [w \in 1..workers |-> NewCalc]

\* Calculate has opened a regular file, which never reads short, and has
\* started the reader and the workers.
Init ==
  /\ prog = "part_003"
  /\ fails = 0
  /\ recs \in SeqUpTo(RecordSet, MaxRecs)
  /\ term \in (IF recs = <<>> THEN {TRUE} ELSE BOOLEAN)
  /\ split = 0
  /\ pageSize \in PageSizes
  /\ workers \in 1..MaxWorkers
  /\ Start

\* ------------------------------------------------------- Page, pagePool

\* pagePool.New: a zeroed buffer of pageSize bytes.
NewPageBuf == [k \in 1..pageSize |-> 0]

\* Page.Bytes
Page_Bytes(p) == Slice(buf[p], 0, pn[p])

\* ---------------------------------------------------- ReadPages (reader)

\* A pool that hands out any Page, whoever holds it.
GetPage_Any == 1..(Len(buf) + 1)

\* The Pages pagePool.Get may hand out: one that was put back (its buffer as
\* it was left) or, as sync.Pool may at any time, a new one.
GetPage == pool \cup {Len(buf) + 1}

\* The buffer of Page p as GetPage hands it out.
GotBuf(p) == IF p \in pool THEN buf[p] ELSE NewPageBuf

\* The bytes one r.Read(buf[offt:]) delivers: the file from off on, as many
\* as fit, and no further than the split of a source that reads short.
ReadCount(o) ==
  Min2(pageSize - o, (IF off < split THEN split ELSE Len(File)) - off)

\* The buffer after copy(buf, prefix) and a read of n bytes behind it.
FillBuf(old, n) ==
  [k \in 1..pageSize |->
     IF k <= Len(prefix) THEN prefix[k]
     ELSE IF k <= Len(prefix) + n THEN File[off + (k - Len(prefix))]
     ELSE old[k]]

\* The valid length ReadPages gives the Page: the index of the last line
\* terminator of the fill b[:m], or what n was when there is none.
PageLen(b, m, n) ==
  LET i == LastIndexByte(Slice(b, 0, m), endLine)
  IN IF i # -1 THEN i ELSE n

\* A ReadPages that keeps no carry.
Carry_Dropped(b, m) == <<>>

\* The carry ReadPages keeps: what follows the last line terminator of the
\* fill b[:m]; nothing when there is none.
Carry(b, m) ==
  LET i == LastIndexByte(Slice(b, 0, m), endLine)
  IN IF i # -1 THEN Slice(b, i + 1, m) ELSE <<>>

\* r.Read reports io.EOF: the file is at its end and the buffer has room.
AtEOF == off = Len(File) /\ Len(prefix) < pageSize

\* One iteration of the loop up to the send: GetPage, the copy of the carry,
\* r.Read of n bytes, the Page cut at the last line terminator and the rest
\* kept as the new carry.
ReadPages_Fill ==
  /\ ~panicked /\ rpc = "fill"
  /\ ~AtEOF
  /\ \E p \in GetPage :
       LET n == ReadCount(Len(prefix))
           m == Len(prefix) + n
           b == FillBuf(GotBuf(p), n)
           len == PageLen(b, m, pageSize)
       IN /\ buf' = IF p \in pool THEN [buf EXCEPT ![p] = b] ELSE Append(buf, b)
          /\ pn' = IF p \in pool THEN [pn EXCEPT ![p] = len] ELSE Append(pn, len)
          /\ pool' = pool \ {p}
          /\ rpage' = p
          /\ prefix' = Carry(b, m)
          /\ off' = off + n
  /\ rpc' = "send"
  /\ UNCHANGED <<cfgVars, lineVars, solveVars, chanVars, workerVars, calcVars, mainVars, panicked, sent>>

\* The iteration in which r.Read reports io.EOF: GetPage, the copy of the
\* carry (which empties prefix), then return and the deferred close.  The
\* Page of this iteration is neither enqueued nor put back.
ReadPages_EOF ==
  /\ ~panicked /\ rpc = "fill"
  /\ AtEOF
  /\ \E p \in GetPage :
       LET b == FillBuf(GotBuf(p), 0)
       IN /\ buf' = IF p \in pool THEN [buf EXCEPT ![p] = b] ELSE Append(buf, b)
          /\ pn' = IF p \in pool THEN pn ELSE Append(pn, pageSize)
          /\ pool' = pool \ {p}
          /\ rpage' = p
  /\ prefix' = <<>>
  /\ rpc' = "done"
  /\ closed' = TRUE
  /\ UNCHANGED <<cfgVars, lineVars, solveVars, off, pages, workerVars, calcVars, mainVars, panicked, sent>>

\* The capacity of the channel: 10*workers.
Capacity == 10 * workers

\* A send that never waits: a channel without bound.
ReadPages_Send_Unbounded ==
  /\ ~panicked /\ rpc = "send"
  /\ pages' = Append(pages, rpage)
  /\ sent' = Append(sent, Page_Bytes(rpage))
  /\ rpc' = "fill"
  /\ UNCHANGED <<cfgVars, lineVars, solveVars, off, rpage, prefix, pageVars, closed, workerVars,
                 calcVars, mainVars, panicked>>

\* pages <- p, which blocks while the channel is full.
ReadPages_Send ==
  /\ ~panicked /\ rpc = "send"
  /\ Len(pages) < Capacity
  /\ pages' = Append(pages, rpage)
  /\ sent' = Append(sent, Page_Bytes(rpage))
  /\ rpc' = "fill"
  /\ UNCHANGED <<cfgVars, lineVars, solveVars, off, rpage, prefix, pageVars, closed, workerVars,
                 calcVars, mainVars, panicked>>

\* --------------------------------------------- Calc.HandlePages (workers)

\* for page := range pages: take the oldest Page, or leave the loop once the
\* channel is closed and empty (wg.Done).
HandlePages_Recv(w) ==
  /\ ~panicked /\ wpc[w] = "recv"
  /\ \/ /\ pages # <<>>
        /\ wpage' = [wpage EXCEPT ![w] = Head(pages)]
        /\ pages' = Tail(pages)
        /\ consumed' = [consumed EXCEPT ![w] = 0]
        /\ wpc' = [wpc EXCEPT ![w] = "handle"]
     \/ /\ pages = <<>> /\ closed
        /\ wpc' = [wpc EXCEPT ![w] = "done"]
        /\ UNCHANGED <<wpage, pages, consumed>>
  /\ UNCHANGED <<cfgVars, lineVars, solveVars, readerVars, pageVars, closed, calcVars, mainVars,
                 panicked, sent>>

\* The line the next iteration of HandlePage handles, from consumed on: up
\* to the next line end, or (last TRUE) all that is left.
NextLine(b, c) ==
  LET rest == SliceFrom(b, c)
      le == lineEndIndex(rest)
  IN IF le = -1 THEN [last |-> TRUE, line |-> rest, step |-> 0]
     ELSE [last |-> FALSE, line |-> Slice(rest, 0, le), step |-> le + 1]

\* A HandlePage all of whose workers fold into the store of the first.
HandlePage_Line_Shared(w) ==
  /\ ~panicked /\ wpc[w] = "handle"
  /\ LET nl == NextLine(Page_Bytes(wpage[w]), consumed[w])
         r == ParseLine(nl.line)
     IN IF r.panic
        THEN /\ panicked' = TRUE
             /\ wpc' = [wpc EXCEPT ![w] = "failed"]
             /\ UNCHANGED <<consumed, parts, folded, keyAt>>
        ELSE /\ parts' = [parts EXCEPT ![1] = Calc_Update(@, r.name, r.value)]
             /\ folded' = [folded EXCEPT ![1] = FoldedAdd(@, r.name, r.value)]
             /\ keyAt' = [keyAt EXCEPT ![1] = KeyAdd(@, r.name, wpage[w], consumed[w])]
             /\ consumed' = [consumed EXCEPT ![w] = @ + nl.step]
             /\ wpc' = [wpc EXCEPT ![w] = IF nl.last THEN "put" ELSE "handle"]
             /\ UNCHANGED panicked
  /\ UNCHANGED <<cfgVars, lineVars, solveVars, readerVars, pageVars, chanVars, wpage, merged,
                 mainVars, sent>>

\* One c.HandleLine of HandlePage: ParseLine, then Calc.Update.  A panic of
\* ParseLine or ParseFloat ends the process.
HandlePage_Line(w) ==
  /\ ~panicked /\ wpc[w] = "handle"
  /\ LET nl == NextLine(Page_Bytes(wpage[w]), consumed[w])
         r == ParseLine(nl.line)
     IN IF r.panic
        THEN /\ panicked' = TRUE
             /\ wpc' = [wpc EXCEPT ![w] = "failed"]
             /\ UNCHANGED <<consumed, parts, folded, keyAt>>
        ELSE /\ parts' = [parts EXCEPT ![w] = Calc_Update(@, r.name, r.value)]
             /\ folded' = [folded EXCEPT ![w] = FoldedAdd(@, r.name, r.value)]
             /\ keyAt' = [keyAt EXCEPT ![w] = KeyAdd(@, r.name, wpage[w], consumed[w])]
             /\ consumed' = [consumed EXCEPT ![w] = @ + nl.step]
             /\ wpc' = [wpc EXCEPT ![w] = IF nl.last THEN "put" ELSE "handle"]
             /\ UNCHANGED panicked
  /\ UNCHANGED <<cfgVars, lineVars, solveVars, readerVars, pageVars, chanVars, wpage, merged, mainVars, sent>>

\* page.Put: n is reset and the Page goes back to the pool.
Page_Put(w) ==
  /\ ~panicked /\ wpc[w] = "put"
  /\ pn' = [pn EXCEPT ![wpage[w]] = pageSize]
  /\ pool' = pool \cup {wpage[w]}
  /\ wpage' = [wpage EXCEPT ![w] = 0]
  /\ wpc' = [wpc EXCEPT ![w] = "recv"]
  /\ UNCHANGED <<cfgVars, lineVars, solveVars, readerVars, buf, chanVars, consumed, calcVars, mainVars,
                 panicked, sent>>

\* ------------------------------------------------------ Calculate (main)

\* The history after MergeParts: the entry the merged Calc points to has had
\* the values of every part's entry of that key folded in.
FoldedMerge(f, c) ==
  LET RECURSIVE all(_, _)
      all(n, i) == IF i > Len(f) THEN EmptyBag
                   ELSE BagUnion(IF n \in DOMAIN f[i] THEN f[i][n] ELSE EmptyBag,
                                 all(n, i + 1))
  IN [w \in DOMAIN f |->
        [n \in DOMAIN f[w] |-> IF c[n] = w THEN all(n, 1) ELSE f[w][n]]]

\* wg.Wait returns once every worker has left HandlePages; then MergeParts.
Calculate_Merge ==
  /\ ~panicked /\ prog = "part_003" /\ mpc = "wait"
  /\ \A w \in 1..workers : wpc[w] = "done"
  /\ LET m == MergeParts(parts)
     IN /\ parts' = m.l
        /\ merged' = m.c
        /\ folded' = FoldedMerge(folded, m.c)
  /\ mpc' = "write"
  /\ UNCHANGED keyAt
  /\ UNCHANGED <<cfgVars, lineVars, solveVars, readerVars, pageVars, chanVars, workerVars, ret, output,
                 panicked, sent>>

\* c.WriteResults(os.Stdout), under any iteration order of the map, and
\* return nil.
Calculate_Write ==
  /\ ~panicked /\ prog = "part_003" /\ mpc = "write"
  /\ \E order \in Orders(DOMAIN merged) :
       output' = Calc_WriteResults([n \in DOMAIN merged |-> parts[merged[n]][n]], order)
  /\ ret' = "nil"
  /\ mpc' = "done"
  /\ UNCHANGED <<cfgVars, lineVars, solveVars, readerVars, pageVars, chanVars, workerVars, calcVars,
                 panicked, sent>>

Next ==
  \/ ReadPages_Fill
  \/ ReadPages_EOF
  \/ ReadPages_Send
  \/ \E w \in 1..workers : HandlePages_Recv(w)
  \/ \E w \in 1..workers : HandlePage_Line(w)
  \/ \E w \in 1..workers : Page_Put(w)
  \/ Calculate_Merge
  \/ Calculate_Write

Spec == Init /\ [][Next]_vars

\* ------------------------------------------------------ Solve (part_002)

\* Records that are not well-formed: "B2.0" has no separator, the value of
\* "B;-" does not parse.
BadRecordSet ==
  { [bytes |-> <<66, 50, 46, 48>>, key |-> <<66>>, val |-> 0],
    [bytes |-> <<66, 59, 45>>,     key |-> <<66>>, val |-> 0] }

\* The reads of the file that may fail with an error other than io.EOF.
MaxFails == 1

\* Solve has opened the file and started the workers and the reader in the
\* errgroup; no read of the file fails.
InitSolve ==
  /\ prog = "part_002"
  /\ fails = 0
  /\ recs \in SeqUpTo(RecordSet \cup BadRecordSet, MaxRecs)
  /\ term \in (IF recs = <<>> THEN {TRUE} ELSE BOOLEAN)
  /\ split = 0
  /\ pageSize \in PageSizes
  /\ workers \in 1..MaxWorkers
  /\ Start

\* The errgroup's record of a task that returned err: the first error that
\* is not nil is kept.
FirstError(old, err) == IF old = "nil" THEN err ELSE old

\* One iteration of the reader up to the select: pagePool.Get, the copy of
\* the carry, file.Read, the Page cut at the last line terminator.  A read
\* that fails with an error other than io.EOF delivers nothing, and the
\* iteration goes on as after a read of no bytes.
Solve_Fill ==
  /\ ~panicked /\ rpc = "fill"
  /\ \E failed \in (IF fails > 0 THEN BOOLEAN ELSE {FALSE}) :
       /\ failed \/ ~AtEOF
       /\ \E p \in GetPage :
            LET n == IF failed THEN 0 ELSE ReadCount(Len(prefix))
                m == Len(prefix) + n
                b == FillBuf(GotBuf(p), n)
                len == PageLen(b, m, pageSize)
            IN /\ buf' = IF p \in pool THEN [buf EXCEPT ![p] = b] ELSE Append(buf, b)
               /\ pn' = IF p \in pool THEN [pn EXCEPT ![p] = len] ELSE Append(pn, len)
               /\ pool' = pool \ {p}
               /\ rpage' = p
               /\ prefix' = Carry(b, m)
               /\ off' = off + n
       /\ fails' = IF failed THEN fails - 1 ELSE fails
       /\ rfailed' = failed
       /\ readFailed' = (readFailed \/ failed)
  /\ rpc' = "send"
  /\ UNCHANGED <<cfgVars, lineVars, chanVars, workerVars, calcVars, mainVars, panicked, sent,
                 storeVars, egVars, failedSent>>

\* The iteration in which file.Read reports io.EOF: the reader returns nil
\* and the deferred close runs.
Solve_EOF ==
  /\ ~panicked /\ rpc = "fill"
  /\ AtEOF
  /\ \E p \in GetPage :
       LET b == FillBuf(GotBuf(p), 0)
       IN /\ buf' = IF p \in pool THEN [buf EXCEPT ![p] = b] ELSE Append(buf, b)
          /\ pn' = IF p \in pool THEN pn ELSE Append(pn, pageSize)
          /\ pool' = pool \ {p}
          /\ rpage' = p
  /\ prefix' = <<>>
  /\ rfailed' = FALSE
  /\ rpc' = "done"
  /\ closed' = TRUE
  /\ UNCHANGED <<cfgVars, lineVars, off, pages, workerVars, calcVars, mainVars, panicked, sent,
                 storeVars, egVars, fails, readFailed, failedSent>>

\* select, case pages <- p.
Solve_Send ==
  /\ ~panicked /\ rpc = "send"
  /\ Len(pages) < Capacity
  /\ pages' = Append(pages, rpage)
  /\ sent' = Append(sent, Page_Bytes(rpage))
  /\ failedSent' = (failedSent \/ rfailed)
  /\ rpc' = "fill"
  /\ UNCHANGED <<cfgVars, lineVars, off, rpage, prefix, pageVars, closed, workerVars, calcVars,
                 mainVars, panicked, storeVars, egVars, fails, rfailed, readFailed>>

\* A reader whose select has no case <-ectx.Done().
Solve_Cancelled_Never == FALSE /\ UNCHANGED vars

\* select, case <-ectx.Done(): the reader returns ectx.Err() and the deferred
\* close runs.
Solve_Cancelled ==
  /\ ~panicked /\ rpc = "send"
  /\ ctxDone
  /\ rpc' = "done"
  /\ closed' = TRUE
  /\ egErr' = FirstError(egErr, "context canceled")
  /\ UNCHANGED <<cfgVars, lineVars, off, rpage, prefix, pageVars, pages, workerVars, calcVars,
                 mainVars, panicked, sent, storeVars, ctxDone, failVars>>

\* DoWork, for page := range pages: take the oldest Page, or return nil once
\* the channel is closed and empty.
DoWork_Recv(w) ==
  /\ ~panicked /\ wpc[w] = "recv"
  /\ \/ /\ pages # <<>>
        /\ wpage' = [wpage EXCEPT ![w] = Head(pages)]
        /\ pages' = Tail(pages)
        /\ consumed' = [consumed EXCEPT ![w] = 0]
        /\ wpc' = [wpc EXCEPT ![w] = "handle"]
     \/ /\ pages = <<>> /\ closed
        /\ wpc' = [wpc EXCEPT ![w] = "done"]
        /\ UNCHANGED <<wpage, pages, consumed>>
  /\ UNCHANGED <<cfgVars, lineVars, solveVars, readerVars, pageVars, closed, calcVars, mainVars,
                 panicked, sent>>

\* The line the next iteration of HandlePage (part_002) handles, from
\* consumed on: up to the next line terminator, or all that is left.
NextLineOfPage(b, c) ==
  LET rest == SliceFrom(b, c)
      le == IndexByte(rest, endLine)
  IN IF le = -1 THEN [last |-> TRUE, line |-> rest, step |-> 0]
     ELSE [last |-> FALSE, line |-> Slice(rest, 0, le), step |-> le + 1]

\* One HandleLine of HandlePage: ParseLine, then store.Update.  An error is
\* returned through HandlePage and DoWork to the errgroup, which keeps the
\* first one and cancels ectx.
DoWork_HandleLine(w) ==
  /\ ~panicked /\ wpc[w] = "handle"
  /\ LET nl == NextLineOfPage(Page_Bytes(wpage[w]), consumed[w])
         item == ParseLineItem(nl.line)
     IN IF item.err # "nil"
        THEN /\ wpc' = [wpc EXCEPT ![w] = "failed"]
             /\ egErr' = FirstError(egErr, item.err)
             /\ ctxDone' = TRUE
             /\ UNCHANGED <<consumed, stores, keyAt>>
        ELSE /\ stores' = [stores EXCEPT ![w] = InfoStore_Update(@, item)]
             /\ keyAt' = [keyAt EXCEPT ![w] = KeyAdd(@, item.name, wpage[w], consumed[w])]
             /\ consumed' = [consumed EXCEPT ![w] = @ + nl.step]
             /\ wpc' = [wpc EXCEPT ![w] = IF nl.last THEN "put" ELSE "handle"]
             /\ UNCHANGED egVars
  /\ UNCHANGED <<cfgVars, lineVars, readerVars, pageVars, chanVars, wpage, parts, merged,
                 folded, mainVars, panicked, sent, store, failVars>>

\* The end of HandlePage: page.n = pageSize and pagePool.Put(page).
DoWork_Put(w) ==
  /\ ~panicked /\ wpc[w] = "put"
  /\ pn' = [pn EXCEPT ![wpage[w]] = pageSize]
  /\ pool' = pool \cup {wpage[w]}
  /\ wpage' = [wpage EXCEPT ![w] = 0]
  /\ wpc' = [wpc EXCEPT ![w] = "recv"]
  /\ UNCHANGED <<cfgVars, lineVars, solveVars, readerVars, buf, chanVars, consumed, calcVars,
                 mainVars, panicked, sent>>

\* eg.Wait returns once every task has returned.
WaitReturns ==
  /\ rpc = "done"
  /\ \A w \in 1..workers : wpc[w] \in {"done", "failed"}

\* A Solve that ignores what eg.Wait returns.
SolveFails_Ignored(err) == FALSE

\* What Solve does with the error of eg.Wait: a non-nil error is returned.
SolveFails(err) == err # "nil"

\* eg.Wait returns an error: Solve returns it, wrapped.
Solve_Fail ==
  /\ ~panicked /\ prog = "part_002" /\ mpc = "wait"
  /\ WaitReturns
  /\ SolveFails(egErr)
  /\ ret' = "error"
  /\ mpc' = "done"
  /\ UNCHANGED <<cfgVars, lineVars, solveVars, readerVars, pageVars, chanVars, workerVars,
                 calcVars, output, panicked, sent>>

\* eg.Wait returns nil: MergeStores.
Solve_Merge ==
  /\ ~panicked /\ prog = "part_002" /\ mpc = "wait"
  /\ WaitReturns
  /\ ~SolveFails(egErr)
  /\ store' = MergeStores(stores)
  /\ mpc' = "write"
  /\ UNCHANGED <<cfgVars, lineVars, readerVars, pageVars, chanVars, workerVars, calcVars,
                 ret, output, panicked, sent, stores, egVars, failVars>>

\* store.Print() and return nil.
Solve_Print ==
  /\ ~panicked /\ prog = "part_002" /\ mpc = "write"
  /\ output' = InfoStore_Print(store)
  /\ ret' = "nil"
  /\ mpc' = "done"
  /\ UNCHANGED <<cfgVars, lineVars, solveVars, readerVars, pageVars, chanVars, workerVars,
                 calcVars, panicked, sent>>

NextSolve ==
  \/ Solve_Fill
  \/ Solve_EOF
  \/ Solve_Send
  \/ Solve_Cancelled
  \/ \E w \in 1..workers : DoWork_Recv(w)
  \/ \E w \in 1..workers : DoWork_HandleLine(w)
  \/ \E w \in 1..workers : DoWork_Put(w)
  \/ Solve_Fail
  \/ Solve_Merge
  \/ Solve_Print

SpecSolve == InitSolve /\ [][NextSolve]_vars

\* ------------------------------------------- the merge stage on its own

\* The number of per-worker stores handed to MergeParts / MergeStores.
MaxParts == 3

\* The keys the stores of the merge stage hold: "A", "B".
MergeKeys == {<<65>>, <<66>>}

\* The values, in the order a worker folded them, that make up one entry.
ValueSeqs == {<<10>>, <<20, -35, 10>>}

\* The Stats after NewStats of the first value and Stats.Update of the rest.
FoldStats(vs) ==
  LET RECURSIVE upd(_, _)
      upd(st, i) == IF i > Len(vs) THEN st ELSE upd(Stats_Update(st, vs[i]), i + 1)
  IN upd(NewStats(vs[1]), 2)

\* The bag of the values vs.
BagOf(vs) ==
  LET RECURSIVE add(_, _)
      add(b, i) == IF i > Len(vs) THEN b ELSE add(BagAdd(b, vs[i]), i + 1)
  IN add(EmptyBag, 1)

\* The InfoStore after InfoStore.Update of every value of every key of d, a
\* function from keys to value sequences.
FoldInfos(d) ==
  LET RECURSIVE vals(_, _, _)
      vals(st, k, i) == IF i > Len(d[k]) THEN st
                        ELSE vals(InfoStore_Update(st, [name |-> k, value |-> d[k][i]]), k, i + 1)
      RECURSIVE keys(_, _)
      keys(st, todo) == IF todo = {} THEN st
                        ELSE LET k == CHOOSE x \in todo : TRUE
                             IN keys(vals(st, k, 1), todo \ {k})
  IN keys(NewInfoStore, DOMAIN d)

\* What the workers may have folded: for each of them, values for some keys.
Drawn == UNION { [K -> ValueSeqs] : K \in SUBSET MergeKeys }

\* Every worker has left its loop with a store it built by updates, wg.Wait
\* or eg.Wait is about to return, and no task has failed.
InitMerge ==
  /\ prog \in {"part_003", "part_002"}
  /\ fails = 0
  /\ recs = <<>> /\ term = TRUE /\ split = 0
  /\ pageSize \in {6}
  /\ workers = MaxParts
  /\ off = 0 /\ rpc = "done" /\ rpage = 0 /\ prefix = <<>>
  /\ pages = <<>> /\ closed = TRUE
  /\ buf = <<>> /\ pn = <<>> /\ pool = {}
  /\ wpc = [w \in 1..workers |-> "done"]
  /\ wpage = [w \in 1..workers |-> 0]
  /\ consumed = [w \in 1..workers |-> 0]
  /\ \E d \in [1..workers -> Drawn] :
       /\ parts = [w \in 1..workers |->
                     IF prog = "part_003" THEN [k \in DOMAIN d[w] |-> FoldStats(d[w][k])]
                     ELSE NewCalc]
       /\ folded = [w \in 1..workers |->
                     IF prog = "part_003" THEN [k \in DOMAIN d[w] |-> BagOf(d[w][k])]
                     ELSE NewCalc]
       /\ stores = [w \in 1..workers |->
                     IF prog = "part_002" THEN FoldInfos(d[w]) ELSE NewInfoStore]
  /\ merged = NewCalc
  /\ store = NewInfoStore
  /\ mpc = "wait" /\ ret = "none" /\ output = <<>>
  /\ panicked = FALSE /\ sent = <<>>
  /\ egErr = "nil" /\ ctxDone = FALSE
  /\ rfailed = FALSE /\ readFailed = FALSE /\ failedSent = FALSE
  /\ lines = <<>>
  /\ wline = [w \in 1..workers |-> <<>>]
  /\ keyAt = [w \in 1..workers |-> NewCalc]

NextMerge ==
  \/ Calculate_Merge
  \/ Calculate_Write
  \/ Solve_Merge
  \/ Solve_Print

SpecMerge == InitMerge /\ [][NextMerge]_vars

\* Solve on a well-formed, newline-terminated file of which some read fails
\* with an error other than io.EOF.
InitSolveIO ==
  /\ prog = "part_002"
  /\ fails \in 1..MaxFails
  /\ recs \in SeqUpTo(RecordSet, MaxRecs)
  /\ term = TRUE
  /\ split = 0
  /\ pageSize \in PageSizes
  /\ workers \in 1..MaxWorkers
  /\ Start

SpecSolveIO == InitSolveIO /\ [][NextSolve]_vars

\* The same pipeline behind a source that delivers the file in two
\* sequential reads: the bytes before the offset split, then the rest.
InitSplit ==
  /\ prog = "part_003"
  /\ fails = 0
  /\ recs \in SeqUpTo(RecordSet, MaxRecs)
  /\ term \in (IF recs = <<>> THEN {TRUE} ELSE BOOLEAN)
  /\ split \in 1..(Len(FileBytes(recs, term)) - 1)
  /\ pageSize \in PageSizes
  /\ workers \in 1..MaxWorkers
  /\ Start

SpecSplit == InitSplit /\ [][Next]_vars

\* ------------------------------------------ Solve after a task has failed

\* The number of records of the long file, one Page each: more Pages than
\* the channel of one worker holds.
LongLen == 12

\* The long file: "A;1.0" throughout, but for the record "B2.0" at index bad
\* (0: nowhere).
LongRecs(bad) ==
  [i \in 1..LongLen |->
     IF i = bad THEN [bytes |-> <<66, 50, 46, 48>>, key |-> <<66>>, val |-> 0]
     ELSE [bytes |-> <<65, 59, 49, 46, 48>>, key |-> <<65>>, val |-> 10]]

\* Solve on a file some of whose records HandleLine may reject: a short file
\* and any number of workers, or the long file, its bad record first or
\* second, read through pages of one record by one worker, whose channel
\* the reader can fill.
InitCancel ==
  /\ prog = "part_002"
  /\ fails = 0
  /\ split = 0
  /\ \/ /\ recs \in SeqUpTo(RecordSet \cup BadRecordSet, MaxRecs)
        /\ term \in (IF recs = <<>> THEN {TRUE} ELSE BOOLEAN)
        /\ pageSize \in PageSizes
        /\ workers \in 1..MaxWorkers
     \/ /\ recs \in { LongRecs(bad) : bad \in 1..2 }
        /\ term = TRUE
        /\ pageSize = 6
        /\ workers = 1
  /\ Start

\* The steps of Solve other than a worker's HandleLine.
SolveOtherSteps ==
  \/ Solve_Fill
  \/ Solve_EOF
  \/ Solve_Send
  \/ Solve_Cancelled
  \/ \E w \in 1..workers : DoWork_Recv(w)
  \/ \E w \in 1..workers : DoWork_Put(w)
  \/ Solve_Fail
  \/ Solve_Merge
  \/ Solve_Print

\* Worker w is inside HandlePage, where its next HandleLine can always run.
InHandlePage(w) == w <= workers /\ ~panicked /\ wpc[w] = "handle"

\* The Go scheduler runs every goroutine that can take a step, and a select
\* one of whose cases stays ready does not wait forever.  For HandleLine the
\* weak fairness of DoWork_HandleLine(w) is written out: the worker is
\* infinitely often outside HandlePage, or infinitely often takes a step in
\* it (a step of DoWork_HandleLine(w) is one that changes wpc[w] or
\* consumed[w] from inside HandlePage).
FairCancel ==
  /\ InitCancel /\ [][NextSolve]_vars
  /\ WF_vars(SolveOtherSteps)
  /\ \A w \in 1..MaxWorkers :
       \/ []<>(~InHandlePage(w))
       \/ []<><<InHandlePage(w) /\ (wpc'[w] # wpc[w] \/ consumed'[w] # consumed[w])>>_vars

\* --------------------------------------- Calculate with a lagging worker

\* Calculate on a short file with any number of workers, or on the long file
\* without a bad record, read through pages of one record by one worker,
\* whose channel the reader can fill.
InitLong ==
  /\ prog = "part_003"
  /\ fails = 0
  /\ split = 0
  /\ \/ /\ recs \in SeqUpTo(RecordSet, MaxRecs)
        /\ term \in (IF recs = <<>> THEN {TRUE} ELSE BOOLEAN)
        /\ pageSize \in PageSizes
        /\ workers \in 1..MaxWorkers
     \/ /\ recs = LongRecs(0)
        /\ term = TRUE
        /\ pageSize = 6
        /\ workers = 1
  /\ Start

SpecLong == InitLong /\ [][Next]_vars

\* ------------------------------------------------ InfoStore on its own

\* The keys of the store's calls: "A", "AB", "B", "C".
StoreKeys == { <<65>>, <<65, 66>>, <<66>>, <<67>> }

\* The values of the store's calls, in tenths.
StoreValues == { 10, -35 }

\* The Items InfoStore.Update is called with.
StoreItems == [name : StoreKeys, value : StoreValues]

\* The Infos InfoStore.Merge is called with: what a store holds for one key
\* after one or two updates.
StoreInfos ==
  { InfoFromItem(it) : it \in StoreItems }
    \cup { Info_Update(InfoFromItem(it), [name |-> it.name, value |-> v]) :
             it \in StoreItems, v \in StoreValues }

\* The most records one store is made to hold.
MaxCount == 4

\* The records folded into a store.
TotalCount(infos) ==
  LET RECURSIVE sum(_)
      sum(i) == IF i > Len(infos) THEN 0 ELSE infos[i].Count + sum(i + 1)
  IN sum(1)

\* NewInfoStore, and no pipeline around it.
InitStore ==
  /\ prog = "InfoStore"
  /\ fails = 0
  /\ recs = <<>> /\ term = TRUE /\ split = 0
  /\ pageSize \in {6}
  /\ workers = 1
  /\ Start

\* store.Update(item), for any item.
Store_Update ==
  /\ prog = "InfoStore"
  /\ TotalCount(store) < MaxCount
  /\ \E item \in StoreItems : store' = InfoStore_Update(store, item)
  /\ UNCHANGED <<cfgVars, lineVars, readerVars, pageVars, chanVars, workerVars, calcVars,
                 mainVars, panicked, sent, stores, egVars, failVars>>

\* store.Merge(info), for any info.
Store_Merge ==
  /\ prog = "InfoStore"
  /\ \E info \in StoreInfos :
       /\ TotalCount(store) + info.Count <= MaxCount
       /\ store' = InfoStore_Merge(store, info)
  /\ UNCHANGED <<cfgVars, lineVars, readerVars, pageVars, chanVars, workerVars, calcVars,
                 mainVars, panicked, sent, stores, egVars, failVars>>

NextStore ==
  \/ Store_Update
  \/ Store_Merge

SpecStore == InitStore /\ [][NextStore]_vars

\* ------------------------------------ both pipelines, with pages reused

\* A file whose first key comes again after a record with another key:
\* "A;1.0", "B;2.0", "A;1.0".
RepeatRecs ==
  << [bytes |-> <<65, 59, 49, 46, 48>>, key |-> <<65>>, val |-> 10],
     [bytes |-> <<66, 59, 50, 46, 48>>, key |-> <<66>>, val |-> 20],
     [bytes |-> <<65, 59, 49, 46, 48>>, key |-> <<65>>, val |-> 10] >>

\* Calculate or Solve on a short well-formed file, or on the file RepeatRecs
\* read through pages of one record by one worker.
InitKeys ==
  /\ prog \in {"part_003", "part_002"}
  /\ fails = 0
  /\ split = 0
  /\ \/ /\ recs \in SeqUpTo(RecordSet, MaxRecs)
        /\ term \in (IF recs = <<>> THEN {TRUE} ELSE BOOLEAN)
        /\ pageSize \in PageSizes
        /\ workers \in 1..MaxWorkers
     \/ /\ recs = RepeatRecs
        /\ term = TRUE
        /\ pageSize = 6
        /\ workers = 1
  /\ Start

NextKeys ==
  \/ prog = "part_003" /\ Next
  \/ prog = "part_002" /\ NextSolve

SpecKeys == InitKeys /\ [][NextKeys]_vars

\* ------------------------------------------- literals of the fixed shape

\* The most integer digits of a literal.
MaxDigits == 2

\* The integer parts: one to MaxDigits decimal digits, as bytes.
IntParts == UNION { [1..k -> 48..57] : k \in 1..MaxDigits }

\* The number a sequence of decimal digits denotes.
Denoted(ds) ==
  LET RECURSIVE num(_)
      num(k) == IF k = 0 THEN 0 ELSE (10 * num(k - 1)) + (ds[k] - 48)
  IN num(Len(ds))

\* The record "A;" followed by the literal: '-' when neg, the integer
\* digits, '.', the fraction digit; its value in tenths.
ShapeRecord(neg, int, frac) ==
  [bytes |-> <<65, valueSep>> \o (IF neg THEN <<45>> ELSE <<>>) \o int \o <<46, frac>>,
   key |-> <<65>>,
   val |-> (IF neg THEN -1 ELSE 1) * ((10 * Denoted(int)) + (frac - 48))]

\* Calculate on a file of one record whose value is any literal of the fixed
\* shape, read in one Page by one worker.
InitFloat ==
  /\ prog = "part_003"
  /\ fails = 0
  /\ split = 0
  /\ recs \in { <<ShapeRecord(neg, int, frac)>> :
                  neg \in BOOLEAN, int \in IntParts, frac \in 48..57 }
  /\ term = TRUE
  /\ pageSize = 10
  /\ workers = 1
  /\ Start

SpecFloat == InitFloat /\ [][Next]_vars

\* ------------------------------------------- files with an empty line

\* The empty record: a line terminator right after the one before it, or at
\* the start of the file.
EmptyRecord == [bytes |-> <<>>, key |-> <<>>, val |-> 0]

\* Calculate or Solve on a short file whose lines may be empty.
InitEmpty ==
  /\ prog \in {"part_003", "part_002"}
  /\ fails = 0
  /\ split = 0
  /\ recs \in SeqUpTo(RecordSet \cup {EmptyRecord}, MaxRecs)
  /\ term \in (IF recs = <<>> THEN {TRUE} ELSE BOOLEAN)
  /\ pageSize \in PageSizes
  /\ workers \in 1..MaxWorkers
  /\ Start

SpecEmpty == InitEmpty /\ [][NextKeys]_vars

\* -------------------------------------------------------- main.go, Solve
\* Solve of main.go reads the file itself: the main goroutine fills one
\* buffer, HandleBuf sends each terminated line of it on the channel lines,
\* and the workers run DoWork on that channel.  ParseLine, InfoStore and
\* MergeStores of main.go are those of part_002.  The buffers of linePool are
\* handed back emptied and a line is copied into the one it is sent in, so
\* the pool moves no bytes between lines and is left out.

\* The lines the channel holds for each worker.
LinesPerWorker == 1000

\* lines := make(chan []byte, 1000*workers)
LineCapacity == LinesPerWorker * workers

\* pageSize := os.Getpagesize(), on a machine with pages of 4 KiB.
OSPageSize == 4096

\* The number of records of the flood file: one that a worker takes and
\* rejects, as many as fill the channel of one worker, and one more.
FloodLen == LinesPerWorker + 2

\* The flood file: the record "B2.0", then "A;1.0" throughout.
FloodRecs ==
  [i \in 1..FloodLen |->
     IF i = 1 THEN [bytes |-> <<66, 50, 46, 48>>, key |-> <<66>>, val |-> 0]
     ELSE [bytes |-> <<65, 59, 49, 46, 48>>, key |-> <<65>>, val |-> 10]]

\* Solve of main.go on a short file some of whose records HandleLine may
\* reject, read through a small buffer with at most MaxFails failing reads,
\* or on the flood file read through a buffer of one page by one worker.
InitMain ==
  /\ prog = "main.go"
  /\ split = 0
  /\ \/ /\ recs \in SeqUpTo(RecordSet \cup BadRecordSet, MaxRecs)
        /\ term \in (IF recs = <<>> THEN {TRUE} ELSE BOOLEAN)
        /\ pageSize \in PageSizes
        /\ workers \in 1..MaxWorkers
        /\ fails \in 0..MaxFails
     \/ /\ recs = FloodRecs
        /\ term = TRUE
        /\ pageSize = OSPageSize
        /\ workers = 1
        /\ fails = 0
  /\ Start

\* n, err = file.Read(buf[offt:]) with err = nil, then HandleBuf is entered
\* on buf[:offt+n].  prefix is buf[consumed:offt+n]: the bytes of the buffer
\* HandleBuf has not consumed, which copy(buf, buf[consumed:]) keeps.  A
\* buffer that is full takes a read of no bytes.
Main_Read ==
  /\ prog = "main.go" /\ rpc = "fill"
  /\ ~AtEOF
  /\ LET n == ReadCount(Len(prefix))
     IN /\ prefix' = prefix \o Slice(File, off, off + n)
        /\ off' = off + n
  /\ rpc' = "send"
  /\ UNCHANGED <<cfgVars, lineVars, rpage, pageVars, chanVars, workerVars, calcVars,
                 mainVars, panicked, sent, solveVars>>

\* file.Read fails with an error other than io.EOF: close(lines), and Solve
\* is to return that error after eg.Wait.
Main_ReadFails ==
  /\ prog = "main.go" /\ rpc = "fill"
  /\ fails > 0
  /\ fails' = fails - 1
  /\ readFailed' = TRUE
  /\ closed' = TRUE
  /\ rpc' = "done"
  /\ mpc' = "fail"
  /\ UNCHANGED <<cfgVars, lineVars, off, rpage, prefix, pageVars, pages, workerVars,
                 calcVars, ret, output, panicked, sent, storeVars, egVars, rfailed,
                 failedSent>>

\* file.Read reports io.EOF: close(lines), and the loop is left after eg.Wait.
Main_EOF ==
  /\ prog = "main.go" /\ rpc = "fill"
  /\ AtEOF
  /\ closed' = TRUE
  /\ rpc' = "done"
  /\ UNCHANGED <<cfgVars, lineVars, off, rpage, prefix, pageVars, pages, workerVars,
                 calcVars, mainVars, panicked, sent, solveVars>>

\* HandleBuf finds a line terminator: out <- b with b a copy of the line,
\* which waits while the channel is full, and consumed += le + 1.
HandleBuf_Send ==
  /\ prog = "main.go" /\ rpc = "send"
  /\ LET le == IndexByte(prefix, endLine)
     IN /\ le # -1
        /\ Len(lines) < LineCapacity
        /\ lines' = Append(lines, Slice(prefix, 0, le))
        /\ prefix' = SliceFrom(prefix, le + 1)
  /\ UNCHANGED <<cfgVars, wline, off, rpc, rpage, pageVars, chanVars, workerVars,
                 calcVars, mainVars, panicked, sent, solveVars>>

\* HandleBuf finds no line terminator and returns consumed: what is left of
\* the buffer is copied to its front and the loop reads again.
HandleBuf_Return ==
  /\ prog = "main.go" /\ rpc = "send"
  /\ IndexByte(prefix, endLine) = -1
  /\ rpc' = "fill"
  /\ UNCHANGED <<cfgVars, lineVars, off, rpage, prefix, pageVars, chanVars, workerVars,
                 calcVars, mainVars, panicked, sent, solveVars>>

\* DoWork of main.go, for line := range lines: take the oldest line, or
\* return nil once the channel is closed and empty.
Main_DoWork_Recv(w) ==
  /\ prog = "main.go" /\ wpc[w] = "recv"
  /\ \/ /\ lines # <<>>
        /\ wline' = [wline EXCEPT ![w] = Head(lines)]
        /\ lines' = Tail(lines)
        /\ wpc' = [wpc EXCEPT ![w] = "handle"]
     \/ /\ lines = <<>> /\ closed
        /\ wpc' = [wpc EXCEPT ![w] = "done"]
        /\ UNCHANGED lineVars
  /\ UNCHANGED <<cfgVars, readerVars, pageVars, chanVars, wpage, consumed, calcVars,
                 mainVars, panicked, sent, solveVars>>

\* HandleLine of main.go: ParseLine, then store.Update.  An error is
\* returned through DoWork to the errgroup, which keeps the first one.
Main_HandleLine(w) ==
  /\ prog = "main.go" /\ wpc[w] = "handle"
  /\ LET item == ParseLineItem(wline[w])
     IN IF item.err # "nil"
        THEN /\ wpc' = [wpc EXCEPT ![w] = "failed"]
             /\ egErr' = FirstError(egErr, item.err)
             /\ ctxDone' = TRUE
             /\ UNCHANGED stores
        ELSE /\ stores' = [stores EXCEPT ![w] = InfoStore_Update(@, item)]
             /\ wpc' = [wpc EXCEPT ![w] = "recv"]
             /\ UNCHANGED egVars
  /\ UNCHANGED <<cfgVars, lineVars, readerVars, pageVars, chanVars, wpage, consumed,
                 calcVars, mainVars, panicked, sent, store, failVars>>

\* _ = eg.Wait(): what eg.Wait returned is dropped.
Main_WaitError(err) == "nil"

\* eg.Wait has returned after a failed read: Solve returns the read error.
Main_Fail ==
  /\ prog = "main.go" /\ mpc = "fail"
  /\ WaitReturns
  /\ ret' = "error"
  /\ mpc' = "done"
  /\ UNCHANGED <<cfgVars, lineVars, readerVars, pageVars, chanVars, workerVars,
                 calcVars, output, panicked, sent, solveVars>>

\* eg.Wait has returned after io.EOF: MergeStores, store.Print (which
\* returns at once and prints nothing) and return nil.
Main_Return ==
  /\ prog = "main.go" /\ mpc = "wait"
  /\ WaitReturns
  /\ IF Main_WaitError(egErr) # "nil"
     THEN ret' = "error" /\ UNCHANGED store
     ELSE ret' = "nil" /\ store' = MergeStores(stores)
  /\ mpc' = "done"
  /\ UNCHANGED <<cfgVars, lineVars, readerVars, pageVars, chanVars, workerVars,
                 calcVars, output, panicked, sent, stores, egVars, failVars>>

NextMain ==
  \/ Main_Read
  \/ Main_ReadFails
  \/ Main_EOF
  \/ HandleBuf_Send
  \/ HandleBuf_Return
  \/ \E w \in 1..workers : Main_DoWork_Recv(w)
  \/ \E w \in 1..workers : Main_HandleLine(w)
  \/ Main_Fail
  \/ Main_Return

SpecMain == InitMain /\ [][NextMain]_vars

\* ------------------------------------------------------------ properties

\* The length of the longest record of rs, without its terminator.
Longest(rs) ==
  IF rs = <<>> THEN 0
  ELSE CHOOSE n \in {Len(rs[i].bytes) : i \in 1..Len(rs)} :
         \A i \in 1..Len(rs) : Len(rs[i].bytes) <= n

\* The lines of b: what lies between its line terminators.
Lines(b) ==
  LET RECURSIVE cut(_)
      cut(x) == LET i == IndexByte(x, endLine)
                IN IF i = -1 THEN <<x>>
                   ELSE <<Slice(x, 0, i)>> \o cut(SliceFrom(x, i + 1))
  IN cut(b)

\* The records the workers are given: the lines of every Page enqueued, in
\* the order of the channel.
SentRecords ==
  LET RECURSIVE all(_)
      all(i) == IF i > Len(sent) THEN <<>> ELSE Lines(sent[i]) \o all(i + 1)
  IN all(1)

\* The records of the input, as bytes.
InputRecords == [i \in 1..Len(recs) |-> recs[i].bytes]

SumOf(f, I) ==
  LET RECURSIVE sum(_)
      sum(J) == IF J = {} THEN 0
                ELSE LET j == CHOOSE x \in J : TRUE IN f[j] + sum(J \ {j})
  IN sum(I)

\* The sequential fold of the records rs: for each key the least, the
\* greatest, the sum and the number of its values.
Expected(rs) ==
  [k \in {rs[i].key : i \in 1..Len(rs)} |->
     LET I == {i \in 1..Len(rs) : rs[i].key = k}
         v == [i \in 1..Len(rs) |-> rs[i].val]
     IN [Min |-> CHOOSE m \in {v[i] : i \in I} : \A i \in I : m <= v[i],
         Max |-> CHOOSE m \in {v[i] : i \in I} : \A i \in I : m >= v[i],
         Sum |-> SumOf(v, I),
         Count |-> Cardinality(I)]]

\* The key -> Stats mapping of the merged Calc.
MergedView == [n \in DOMAIN merged |-> parts[merged[n]][n]]

\* C1: for a newline-terminated input, any number of workers, a page size
\* larger than the longest record plus its terminator and any interleaving,
\* the merged store holds for each key exactly the min, max, sum and count of
\* the sequential fold over the records of that key, and no other key.
C1_MergedIsSequentialFold ==
  (mpc \in {"write", "done"} /\ term /\ pageSize > Longest(recs) + 1)
    => MergedView = Expected(recs)

\* Two workers have each parsed a Page holding a record of the same key, and
\* the merge is done.
C1_Witness ==
  /\ mpc = "done" /\ term /\ pageSize > Longest(recs) + 1
  /\ workers = 2 /\ Len(sent) = 2
  /\ \E n \in DOMAIN merged : Cardinality({w \in 1..workers : n \in DOMAIN folded[w]}) = 2

\* C2: a final record without a line terminator is not lost: the merged
\* store of an input whose last record lacks its terminator is the fold over
\* all its records, and the reader has enqueued every record by the time it
\* closes the channel.
C2_UnterminatedRecordKept ==
  (~term /\ pageSize > Longest(recs) + 1)
    => /\ (rpc = "done" => SentRecords = InputRecords)
       /\ (mpc \in {"write", "done"} => MergedView = Expected(recs))

\* C3: for a newline-terminated input and a page size larger than the
\* longest record, every Page enqueued holds whole records only: the lines of
\* the Pages in channel order are the first records of the input, and all of
\* them once the reader has returned, whatever the page size.
C3_PagesHoldWholeRecords ==
  (term /\ pageSize > Longest(recs))
    => /\ Len(SentRecords) <= Len(recs)
       /\ SentRecords = SubSeq(InputRecords, 1, Len(SentRecords))
       /\ (rpc = "done" => SentRecords = InputRecords)

\* The reader has returned after two Pages of which the first ended inside
\* the second record, so that a carry was prepended to the second.
C3_Witness ==
  /\ rpc = "done" /\ term /\ pageSize > Longest(recs)
  /\ Len(recs) = 2 /\ Len(sent) = 2
  /\ Len(File) > pageSize /\ Len(recs[1].bytes) + 1 < pageSize

\* C4: with the source delivering the file in two sequential reads, split at
\* any offset, the workers are given the record sequence of the unsplit read:
\* for a newline-terminated input, the records of the input.
C4_SplitReadSameRecords ==
  (term /\ pageSize > Longest(recs) /\ rpc = "done") => SentRecords = InputRecords

\* The lists l in the order p, a permutation of their indices.
Permute(l, p) == [i \in 1..Len(p) |-> l[p[i]]]

\* The key -> Stats mapping of an InfoStore.
InfoView(infos) ==
  [n \in {infos[i].Name : i \in 1..Len(infos)} |->
     LET i == CHOOSE j \in 1..Len(infos) : infos[j].Name = n
     IN [Min |-> infos[i].Min, Max |-> infos[i].Max,
         Sum |-> infos[i].Sum, Count |-> infos[i].Count]]

\* The Stats objects of all parts.
AllStats == UNION { {parts[w][n] : n \in DOMAIN parts[w]} : w \in 1..workers }

\* C5: the merge is independent of order and grouping: MergeParts and
\* MergeStores give the same key -> {min, max, sum, count} mapping for every
\* permutation of the list of per-worker stores, and Stats.Merge is
\* commutative and associative.
C5_MergeOrderIndependent ==
  /\ \A p \in Orders(1..workers) :
       /\ CalcView(MergeParts(Permute(parts, p))) = CalcView(MergeParts(parts))
       /\ InfoView(MergeStores(Permute(stores, p))) = InfoView(MergeStores(stores))
  /\ \A a, b \in AllStats : Stats_Merge(a, b) = Stats_Merge(b, a)
  /\ \A a, b, c \in AllStats :
       Stats_Merge(Stats_Merge(a, b), c) = Stats_Merge(a, Stats_Merge(b, c))

\* MergeParts has merged three parts that all hold the same key with
\* different Stats, so that a permutation changes which Stats is merged into.
C5_Witness ==
  /\ prog = "part_003" /\ mpc = "write"
  /\ \E n \in DOMAIN merged :
       /\ \A w \in 1..workers : n \in DOMAIN parts[w]
       /\ parts[2][n] # parts[3][n]
       /\ parts[merged[n]][n].Count >= 4

\* The output the format asks for: the keys in strictly ascending byte-wise
\* order, each as key=min/mean/max, single commas between the entries, one
\* pair of braces around them and a newline.
ExpectedOutput(view) ==
  LET l == CHOOSE o \in Orders(DOMAIN view) :
             \A i, j \in DOMAIN o : i < j => StrLess(o[i], o[j])
      RECURSIVE entries(_)
      entries(i) ==
        IF i > Len(l) THEN <<>>
        ELSE (IF i = 1 THEN <<>> ELSE <<44>>)
             \o l[i] \o <<61>> \o FmtValue(view[l[i]].Min)
             \o <<47>> \o FmtMean(view[l[i]].Sum, view[l[i]].Count)
             \o <<47>> \o FmtValue(view[l[i]].Max)
             \o entries(i + 1)
  IN <<123>> \o entries(1) \o <<125, 10>>

\* C6: Calc.WriteResults writes one entry per key of the merged store, in
\* strictly ascending byte-wise key order whatever the iteration order of
\* the map, each as key=min/mean/max, with single commas between them, inside
\* one pair of braces followed by a newline; the empty store gives "{}\n",
\* and the file "A;1.0\nB;2.0\n" gives "{A=1.0/1.0/1.0,B=2.0/2.0/2.0}\n".
C6_WriteResultsSorted ==
  (prog = "part_003" /\ mpc = "done")
    => /\ output = ExpectedOutput(MergedView)
       /\ (DOMAIN merged = {} => output = <<123, 125, 10>>)
       /\ (term /\ InputRecords = << <<65, 59, 49, 46, 48>>, <<66, 59, 50, 46, 48>> >>
             /\ pageSize > 6
           => output = <<123, 65, 61, 49, 46, 48, 47, 49, 46, 48, 47, 49, 46, 48, 44,
                         66, 61, 50, 46, 48, 47, 50, 46, 48, 47, 50, 46, 48, 125, 10>>)

\* WriteResults has written a store of two keys.
C6_Witness ==
  /\ prog = "part_003" /\ mpc = "done"
  /\ Cardinality(DOMAIN merged) = 2
  /\ Len(output) > 3

BagSum(b) == SumOf([v \in DOMAIN b |-> v * b[v]], DOMAIN b)
BagCount(b) == SumOf(b, DOMAIN b)

\* C7: every entry of every store, per-worker or merged, has count >= 1,
\* min <= max and min*count <= sum <= max*count, its sum is the sum and its
\* count the number of the values folded into it, and its min and max are
\* the least and the greatest of them.
C7_StatsInvariant ==
  \A w \in 1..workers : \A n \in DOMAIN parts[w] :
    LET st == parts[w][n]
        b == folded[w][n]
    IN /\ st.Count >= 1
       /\ st.Min <= st.Max
       /\ st.Min * st.Count <= st.Sum
       /\ st.Sum <= st.Max * st.Count
       /\ st.Sum = BagSum(b)
       /\ st.Count = BagCount(b)
       /\ st.Min \in DOMAIN b /\ \A v \in DOMAIN b : st.Min <= v
       /\ st.Max \in DOMAIN b /\ \A v \in DOMAIN b : st.Max >= v

\* An entry of the merged store that was created by NewStats in two workers
\* and merged by Stats.Merge, with different values.
C7_Witness ==
  /\ mpc \in {"write", "done"}
  /\ \E n \in DOMAIN merged :
       /\ Cardinality({w \in 1..workers : n \in DOMAIN parts[w]}) = 2
       /\ parts[merged[n]][n].Count = 2
       /\ parts[merged[n]][n].Min < parts[merged[n]][n].Max

\* C8: in Solve of part_002 a worker whose HandlePage returned an error is
\* fatal to the run: MergeStores and Print are not executed, nothing is
\* written to the primary output, and what Solve returns is an error.
C8_BadRecordIsFatal ==
  (\E w \in 1..workers : wpc[w] = "failed")
    => /\ mpc # "write"
       /\ store = NewInfoStore
       /\ output = <<>>
       /\ ret # "nil"
       /\ (mpc = "done" => ret = "error")

\* Solve has returned an error after one worker failed on a record while
\* another had stored the records of its Pages.
C8_Witness ==
  /\ mpc = "done" /\ ret = "error"
  /\ \E w, x \in 1..workers : wpc[w] = "failed" /\ wpc[x] = "done" /\ stores[x] # <<>>

\* C9: after file.Read has returned an error other than io.EOF, the reader
\* of Solve enqueues no Page built from the failed read, and Solve returns
\* an error.
C9_ReadFailureIsFatal ==
  /\ ~failedSent
  /\ (readFailed /\ mpc = "done") => ret = "error"

\* C10: on a well-formed input, read through pages longer than its longest
\* record and terminator, the pipeline ends successfully: no worker leaves
\* its loop with an error, every Page enqueued has been consumed when Solve
\* returns, and what Solve returns is nil.
C10_WellFormedRunSucceeds ==
  ((\A i \in 1..Len(recs) : recs[i] \in RecordSet) /\ pageSize > Longest(recs) + 1)
    => /\ \A w \in 1..workers : wpc[w] # "failed"
       /\ ret # "error"
       /\ (mpc = "done" => ret = "nil" /\ pages = <<>>)

\* Some worker has returned an error from DoWork.
SomeWorkerFailed == \E w \in 1..workers : wpc[w] = "failed"

\* C11: cancellation in Solve of part_002.  The errgroup keeps the error of
\* the first task that failed and never replaces it (the reader's
\* ectx.Err() and later workers' errors are discarded); once a worker has
\* failed ectx is done, so a reader that waits on a full channel can leave
\* through <-ectx.Done(); and from then on the run ends: the reader returns
\* and closes the channel, every worker leaves DoWork, eg.Wait returns and
\* Solve returns the error.
C11_CancellationEnds ==
  /\ [][egErr # "nil" => egErr' = egErr]_vars
  /\ [][(egErr = "nil" /\ egErr' # "nil")
          => /\ ~SomeWorkerFailed
             /\ \E w \in 1..workers : wpc'[w] = "failed"
             /\ egErr' \in {"syntax", "separator not found"}]_vars
  /\ [](SomeWorkerFailed
          => /\ ctxDone /\ egErr \in {"syntax", "separator not found"}
             /\ (rpc = "send" /\ Len(pages) = Capacity => ENABLED Solve_Cancelled))
  /\ (SomeWorkerFailed ~> (closed /\ WaitReturns /\ mpc = "done" /\ ret = "error"))

\* The only worker has failed and the reader, its Page in hand, finds the
\* channel full.
C11_Witness ==
  /\ prog = "part_002" /\ SomeWorkerFailed
  /\ rpc = "send" /\ Len(pages) = Capacity

\* The holders of Page p: the pool, the reader between GetPage and the send,
\* a slot of the channel, a worker between the receive and Page.Put (or
\* stopped in between by a panic).
HeldByPool(p) == p \in pool
HeldByReader(p) == rpc = "send" /\ rpage = p
SlotsOf(p) == {i \in 1..Len(pages) : pages[i] = p}
WorkersOf(p) == {w \in 1..workers : wpc[w] \in {"handle", "put", "failed"} /\ wpage[w] = p}
Holders(p) ==
  (IF HeldByPool(p) THEN 1 ELSE 0) + (IF HeldByReader(p) THEN 1 ELSE 0)
    + Cardinality(SlotsOf(p)) + Cardinality(WorkersOf(p))

\* The Page the reader took in the iteration in which r.Read reported io.EOF:
\* no goroutine refers to it once the reader has returned.
Unreferenced(p) == rpc = "done" /\ rpage = p

C13_MainBadRecordIsFatal ==
  (prog = "main.go" /\ SomeWorkerFailed) => ret # "nil"

\* The main goroutine of main.go waits in HandleBuf to send a line on a full
\* channel that no worker will ever receive from again.
StuckInHandleBuf ==
  /\ prog = "main.go" /\ rpc = "send"
  /\ IndexByte(prefix, endLine) # -1
  /\ Len(lines) = LineCapacity
  /\ \A w \in 1..workers : wpc[w] \in {"done", "failed"}

\* C14: Solve of main.go returns for every finite input, also after the
\* workers have stopped on a malformed record: the reading goroutine is
\* never left waiting in HandleBuf to send a line on the full channel when
\* every worker running DoWork has returned.
C14_ReaderNeverStuck == ~StuckInHandleBuf

\* The Pages acquired from pagePool and not put back.
PagesOut == Len(buf) - Cardinality(pool)

\* C15: in Calculate the channel holds at most Capacity = 10*workers Pages,
\* the Pages acquired from the pool and not yet released number at most
\* Capacity + workers + 1, and while the channel is full the reader waits
\* at its send and acquires no further Page.
C15_Backpressure ==
  /\ [](Len(pages) <= Capacity /\ PagesOut <= Capacity + workers + 1)
  /\ [][(rpc = "send" /\ Len(pages) = Capacity) =>
          /\ rpc' = "send" /\ rpage' = rpage
          /\ Len(buf') = Len(buf) /\ pool \subseteq pool']_vars

\* The channel is full, the worker parses a Page and the reader waits to
\* send one more: as many Pages are out as the bound allows.
C15_Witness ==
  /\ prog = "part_003" /\ rpc = "send" /\ Len(pages) = Capacity
  /\ PagesOut = Capacity + workers + 1

\* Worker w takes a step of its HandlePage.
WorkerParses(w) ==
  /\ wpc[w] = "handle"
  /\ wpc'[w] # wpc[w] \/ consumed'[w] # consumed[w]

\* The step in which Calculate, after wg.Wait, runs MergeParts.
MergeStep ==
  /\ mpc = "wait" /\ mpc' = "write"
  /\ \A w \in 1..workers : wpc[w] = "done"

\* The statement of C16 as it stands: a worker's store changes only in a
\* step of its own worker, taken before merging begins.
C16_NoStoreChangesOnceMerging ==
  [][\A w \in 1..workers :
       parts'[w] # parts[w] => (WorkerParses(w) /\ mpc = "wait" /\ mpc' = "wait")]_vars

\* C16: in Calculate the store of a worker is changed during parsing only
\* by a step of that worker; MergeParts runs only once every worker has left
\* HandlePages; after merging has begun no worker changes any store, and the
\* only change to a store is the one MergeParts itself makes, folding into
\* the entries the merged store points to; the merged store is built in one
\* step, once, and the result is written once, after it.
C16_StoresPrivate ==
  /\ [][\A w \in 1..workers :
          parts'[w] # parts[w] =>
            \/ WorkerParses(w) /\ mpc = "wait" /\ mpc' = "wait"
            \/ /\ MergeStep
               /\ DOMAIN parts'[w] = DOMAIN parts[w]
               /\ \A n \in DOMAIN parts[w] :
                    parts'[w][n] # parts[w][n] => merged'[n] = w]_vars
  /\ [][merged' # merged => (MergeStep /\ merged = NewCalc)]_vars
  /\ [][output' # output => (mpc = "write" /\ mpc' = "done" /\ output = <<>>)]_vars
  /\ [][/\ mpc = "write" => mpc' \in {"write", "done"}
        /\ mpc = "done" => mpc' = "done"
        /\ mpc # "wait" => \A w \in 1..workers : wpc'[w] = "done"]_vars

\* Calculate has returned after merging two stores that both held a key.
C16_Witness ==
  /\ prog = "part_003" /\ mpc = "done" /\ ret = "nil" /\ workers >= 2
  /\ DOMAIN parts[1] \cap DOMAIN parts[2] # {}
  /\ DOMAIN merged # {}

\* The infos are in strictly ascending order of their names.
Ascending(infos) ==
  \A i \in 1..(Len(infos) - 1) : StrLess(infos[i].Name, infos[i + 1].Name)

\* The infos without the entry at index i.
Without(infos, i) ==
  [k \in 1..(Len(infos) - 1) |-> IF k < i THEN infos[k] ELSE infos[k + 1]]

\* C17: from NewInfoStore on, after any sequence of InfoStore.Update and
\* InfoStore.Merge the infos are in strictly ascending order of their names
\* (so that every key appears once); a call for a key the store holds folds
\* into that entry and a call for a new key inserts one entry, and either
\* leaves every other entry as it was.
C17_InfoStoreSorted ==
  /\ [](Ascending(store))
  /\ [][store' # store =>
          \/ /\ Len(store') = Len(store)
             /\ \E i \in 1..Len(store) :
                  /\ store'[i].Name = store[i].Name
                  /\ store'[i].Count > store[i].Count
                  /\ store'[i].Min <= store[i].Min
                  /\ store'[i].Max >= store[i].Max
                  /\ \A j \in 1..Len(store) : j # i => store'[j] = store[j]
          \/ /\ Len(store') = Len(store) + 1
             /\ \E i \in 1..Len(store') :
                  /\ Without(store', i) = store
                  /\ \A j \in 1..Len(store) : store[j].Name # store'[i].Name]_vars

\* The store holds all four keys, "AB" between "A" and "B".
C17_Witness ==
  /\ prog = "InfoStore" /\ Len(store) = 4
  /\ store[2].Name = <<65, 66>>

\* The bytes a stored key reads as: its own, or those its view shows now.
KeyBytes(ref, key) ==
  IF ref.own THEN key ELSE Slice(buf[ref.page], ref.from, ref.to)

\* The keys the store of worker w holds.
StoredKeys(w) ==
  IF prog = "part_002" THEN { stores[w][i].Name : i \in 1..Len(stores[w]) }
  ELSE DOMAIN parts[w]

\* The records the entry of key in the store of worker w has taken in.
StoredCount(w, key) ==
  IF prog = "part_002"
  THEN LET i == CHOOSE i \in 1..Len(stores[w]) : stores[w][i].Name = key
       IN stores[w][i].Count
  ELSE parts[w][key].Count

C19_ParseFloatExact ==
  \A w \in 1..workers : \A key \in DOMAIN parts[w] :
    /\ key = recs[1].key
    /\ parts[w][key] = NewStats(recs[1].val)

\* The worker has parsed "A;-12.3" and holds -123 tenths.
C19_Witness ==
  /\ recs = <<ShapeRecord(TRUE, <<49, 50>>, 51)>>
  /\ <<65>> \in DOMAIN parts[1]
  /\ parts[1][<<65>>].Sum = -123

\* The span worker w is at in its Page: whether it is the one after the last
\* line terminator, and its bytes.
SpanOf(w) ==
  IF prog = "part_002" THEN NextLineOfPage(Page_Bytes(wpage[w]), consumed[w])
  ELSE NextLine(Page_Bytes(wpage[w]), consumed[w])

\* Worker w has stopped, by a panic or with an error, at the empty span that
\* ends its Page.
FailedOnEmptySpan(w) ==
  /\ wpc[w] = "failed"
  /\ SpanOf(w).last
  /\ SpanOf(w).line = <<>>

\* C20: a worker takes an empty span for "no further records": HandlePage,
\* given a Page with no content or one whose content ends with a line
\* terminator, reports no failure at the empty span that ends the Page.
C20_EmptySpanIsNoFailure ==
  \A w \in 1..workers : ~FailedOnEmptySpan(w)

\* The Pages GetPage has handed out in this run.
Acquired == 1..Len(buf)

\* C21: no Page is dropped in a successful run of Calculate: when Calculate
\* has returned nil, every Page the reader acquired with GetPage is back in
\* the pool, the one of the iteration that met the end of the input too.
C21_NoPageDropped ==
  (prog = "part_003" /\ mpc = "done" /\ ret = "nil") => pool = Acquired

\* C22: the Page ReadPages is about to enqueue has a valid length n of at
\* most the bytes this fill wrote into it, the carry and the bytes read,
\* also when the fill holds no line terminator.
C22_PageLenWithinFill ==
  [][(prog = "part_003" /\ rpc = "fill" /\ rpc' = "send") =>
       pn'[rpage'] <= Len(prefix) + (off' - off)]_vars
====
